---- MODULE Spec2Model ----
(***************************************************************************)
(* Verification model of the Allusion presentation layer:                  *)
(*   - UiStore selection bookkeeping (selectTag / deselectTag /             *)
(*     cleanFileSelection),                                                 *)
(*   - the SlideView component (index stepping, key / popstate listeners,   *)
(*     the effect that jumps to the first selected image),                  *)
(*   - the GalleryItem component (tag drag-and-drop, thumbnail readiness).  *)
(* Each component has its own specification over the shared variables.      *)
(***************************************************************************)
EXTENDS Integers, Sequences, FiniteSets, TLC

\* ------------------------------------------------------------------ bounds
NumFiles == 4
NumTags == 2
MaxSel == 2

Files == 1..NumFiles
Tags == 1..NumTags

\* `undefined`, the result of Array.prototype.find when nothing matches
Undefined == 0

VARIABLES
  fileList,               \* fileStore.fileList: sequence of file ids
  fileSelection,          \* uiStore.fileSelection: sequence of file ids
  tagSelection,           \* uiStore.tagSelection: sequence of tag ids
  lastOp,                 \* name of the operation / event handled last
  threw,                  \* whether that operation ended by throwing
  firstItem,              \* uiStore.firstItem (0-based index into fileList)
  isSlideMode,            \* uiStore.isSlideMode
  mounted,                \* SlideView is mounted
  keydownListener,        \* handleUserKeyPress is registered on window
  popstateListener,       \* popStateHandler is registered on window
  disableCalled,          \* the last event called uiStore.disableSlideMode
  tags,                   \* file.tags of the GalleryItem's file
  dropTarget,             \* dataset[DnDAttribute.Target] of the item's div
  ctxTags,                \* ctx.tags of the last drop event
  isThumbnailReady,       \* useState of GalleryItem
  isThumbnailGenerating,  \* useState of GalleryItem
  thumbnailPath,          \* file.thumbnailPath: "thumb" or "thumb?v=1"
  promise,                \* ensureThumbnail(...).then: "pending" or "settled"
  isBroken,               \* file.isBroken
  imageError              \* the <img> reported a load error

uiVars == <<fileList, fileSelection, tagSelection, lastOp, threw>>
slideVars == <<firstItem, isSlideMode, mounted, keydownListener, popstateListener,
               disableCalled>>
galleryVars == <<tags, dropTarget, ctxTags, isThumbnailReady, isThumbnailGenerating,
                 thumbnailPath, promise, isBroken, imageError>>
vars == <<uiVars, slideVars, galleryVars>>

\* ------------------------------------------------------------ data helpers
Range(s) == {s[i] : i \in 1..Len(s)}

\* the ascending enumeration of a set of ids
RECURSIVE SortedSeq(_)
SortedSeq(S) ==
  IF S = {} THEN <<>>
  ELSE LET m == CHOOSE x \in S : \A y \in S : x <= y
       IN <<m>> \o SortedSeq(S \ {m})

FileLists == {SortedSeq(S) : S \in SUBSET Files}

Bit(n, k) == (n \div (2 ^ k)) % 2

\* ClientFile.tags of the files in the database: file f carries the tags whose
\* bits are set in f - 1, so that every combination of tags occurs on some file
FileTags(f) == {t \in Tags : Bit(f - 1, t - 1) = 1}

\* ------------------------------------------------------------------ UiStore
\* ObservableArray.remove(value): removes the first occurrence only
remove(s, x) ==
  IF x \notin Range(s) THEN s
  ELSE LET i == CHOOSE j \in 1..Len(s) : s[j] = x /\ \A k \in 1..(j - 1) : s[k] # x
       IN SubSeq(s, 1, i - 1) \o SubSeq(s, i + 1, Len(s))

\* fileList.find((f) => f.id === id)
find(list, id) == IF id \in Range(list) THEN id ELSE Undefined

\* UiStore.clientFileSelection: a fresh array, one entry per selected id
clientFileSelection(sel, list) == [i \in 1..Len(sel) |-> find(list, sel[i])]

\* the forEach of cleanFileSelection over the array `snapshot`, from index i on;
\* reading .tags of an undefined entry throws a TypeError and ends the loop
RECURSIVE cleanFrom(_, _, _, _)
cleanFrom(snapshot, i, sel, tsel) ==
  IF i > Len(snapshot) THEN [sel |-> sel, threw |-> FALSE]
  ELSE IF snapshot[i] = Undefined THEN [sel |-> sel, threw |-> TRUE]
  ELSE IF ~ \E t \in FileTags(snapshot[i]) : t \in Range(tsel)
       THEN cleanFrom(snapshot, i + 1, remove(sel, snapshot[i]), tsel)
       ELSE cleanFrom(snapshot, i + 1, sel, tsel)

\* a forEach that walks the live fileSelection while entries are being removed
RECURSIVE cleanLive(_, _, _, _)
cleanLive(list, i, sel, tsel) ==
  IF i > Len(sel) THEN [sel |-> sel, threw |-> FALSE]
  ELSE IF find(list, sel[i]) = Undefined THEN [sel |-> sel, threw |-> TRUE]
  ELSE IF ~ \E t \in FileTags(sel[i]) : t \in Range(tsel)
       THEN cleanLive(list, i + 1, remove(sel, sel[i]), tsel)
       ELSE cleanLive(list, i + 1, sel, tsel)

cleanFileSelectionLive(sel, tsel, list) == cleanLive(list, 1, sel, tsel)

\* UiStore.cleanFileSelection
cleanFileSelection(sel, tsel, list) ==
  cleanFrom(clientFileSelection(sel, list), 1, sel, tsel)

selectFile(f) ==
  /\ Len(fileSelection) < MaxSel
  /\ fileSelection' = Append(fileSelection, f)
  /\ lastOp' = "selectFile"
  /\ threw' = FALSE
  /\ UNCHANGED <<fileList, tagSelection>>

deselectFile(f) ==
  /\ fileSelection' = remove(fileSelection, f)
  /\ lastOp' = "deselectFile"
  /\ threw' = FALSE
  /\ UNCHANGED <<fileList, tagSelection>>

clearFileSelection ==
  /\ fileSelection' = <<>>
  /\ lastOp' = "clearFileSelection"
  /\ threw' = FALSE
  /\ UNCHANGED <<fileList, tagSelection>>

selectTag(t) ==
  /\ Len(tagSelection) < MaxSel
  /\ tagSelection' = Append(tagSelection, t)
  /\ LET r == cleanFileSelection(fileSelection, tagSelection', fileList)
     IN /\ fileSelection' = r.sel
        /\ threw' = r.threw
  /\ lastOp' = "selectTag"
  /\ UNCHANGED fileList

deselectTag(t) ==
  /\ tagSelection' = remove(tagSelection, t)
  /\ LET r == cleanFileSelection(fileSelection, tagSelection', fileList)
     IN /\ fileSelection' = r.sel
        /\ threw' = r.threw
  /\ lastOp' = "deselectTag"
  /\ UNCHANGED fileList

clearTagSelection ==
  /\ tagSelection' = <<>>
  /\ lastOp' = "clearTagSelection"
  /\ threw' = FALSE
  /\ UNCHANGED <<fileList, fileSelection>>

\* the file list arriving from the backend after fetchFilesByTagIDs
fetchFilesByTagIDs ==
  /\ \E l \in FileLists : fileList' = l
  /\ lastOp' = "fetchFilesByTagIDs"
  /\ threw' = FALSE
  /\ UNCHANGED <<fileSelection, tagSelection>>

SlideIdle ==
  /\ firstItem = 0
  /\ isSlideMode = FALSE
  /\ mounted = FALSE
  /\ keydownListener = FALSE
  /\ popstateListener = FALSE
  /\ disableCalled = FALSE

GalleryIdle ==
  /\ tags = {}
  /\ dropTarget = "unset"
  /\ ctxTags = {}
  /\ isThumbnailReady = TRUE
  /\ isThumbnailGenerating = FALSE
  /\ thumbnailPath = "thumb"
  /\ promise = "pending"
  /\ isBroken = FALSE
  /\ imageError = FALSE

UiInit ==
  /\ fileList \in FileLists
  /\ fileSelection = <<>>
  /\ tagSelection = <<>>
  /\ lastOp = "init"
  /\ threw = FALSE
  /\ SlideIdle
  /\ GalleryIdle

\* the gallery only offers the files of fileList for selection
UiSelectFile ==
  /\ \E f \in Range(fileList) : selectFile(f)
  /\ UNCHANGED <<slideVars, galleryVars>>

UiDeselectFile ==
  /\ \E f \in Range(fileList) : deselectFile(f)
  /\ UNCHANGED <<slideVars, galleryVars>>

UiClearFileSelection ==
  /\ clearFileSelection
  /\ UNCHANGED <<slideVars, galleryVars>>

UiSelectTag ==
  /\ \E t \in Tags : selectTag(t)
  /\ UNCHANGED <<slideVars, galleryVars>>

UiDeselectTag ==
  /\ \E t \in Tags : deselectTag(t)
  /\ UNCHANGED <<slideVars, galleryVars>>

UiClearTagSelection ==
  /\ clearTagSelection
  /\ UNCHANGED <<slideVars, galleryVars>>

UiFetchFiles ==
  /\ fetchFilesByTagIDs
  /\ UNCHANGED <<slideVars, galleryVars>>

UiNext ==
  \/ UiSelectFile
  \/ UiDeselectFile
  \/ UiClearFileSelection
  \/ UiSelectTag
  \/ UiDeselectTag
  \/ UiClearTagSelection
  \/ UiFetchFiles

SpecUi == UiInit /\ [][UiNext]_vars

\* every selected id is a file carrying a tag of the tag selection
SelectionTagged ==
  \A i \in 1..Len(fileSelection) :
    \E t \in FileTags(fileSelection[i]) : t \in Range(tagSelection)

\* C1: right after selectTag or deselectTag returns, every id left in
\* fileSelection belongs to a file with at least one tag of the updated
\* tagSelection; with an empty tagSelection the fileSelection is empty.
C1_CleanedSelection ==
  (lastOp \in {"selectTag", "deselectTag"} /\ ~threw) =>
    /\ SelectionTagged
    /\ (tagSelection = <<>> => fileSelection = <<>>)

\* a deselectTag that returned and kept a tagged file selected
C1_Witness ==
  /\ lastOp = "deselectTag"
  /\ ~threw
  /\ Len(fileSelection) >= 1
  /\ Len(tagSelection) >= 1

\* ---------------------------------------------------------------- SlideView
Max(a, b) == IF a >= b THEN a ELSE b
Min(a, b) == IF a <= b THEN a ELSE b

Keys == {"ArrowLeft", "ArrowRight", "Escape", "Backspace", "Enter"}

\* uiStore.firstSelectedFile: the first entry of the selection, or undefined
firstSelectedFile == IF fileSelection = <<>> THEN Undefined ELSE Head(fileSelection)

\* fileStore.getIndex(id): the 0-based position of a listed file in fileList
getIndex(id) == (CHOOSE i \in 1..Len(fileList) : fileList[i] = id) - 1

\* uiStore.setFirstItem(index)
setFirstItem(index) == firstItem' = index

\* uiStore.disableSlideMode()
disableSlideMode == isSlideMode' = FALSE

\* the bodies of the two callbacks, as the value handed to setFirstItem
decrTarget == Max(0, firstItem - 1)
incrNoClamp == firstItem + 1
incrTarget == Min(firstItem + 1, Len(fileList) - 1)

decrImgIndex == setFirstItem(decrTarget)
incrImgIndex == setFirstItem(incrTarget)

\* the effect "Go to the first selected image on load"
loadEffectSkipsLookup == UNCHANGED firstItem
loadEffect ==
  IF firstSelectedFile # Undefined
  THEN setFirstItem(getIndex(firstSelectedFile))
  ELSE UNCHANGED firstItem

\* handleUserKeyPress(event)
handleUserKeyPress(key) ==
  IF key = "ArrowLeft" THEN
    /\ decrImgIndex
    /\ disableCalled' = FALSE
    /\ UNCHANGED isSlideMode
  ELSE IF key = "ArrowRight" THEN
    /\ incrImgIndex
    /\ disableCalled' = FALSE
    /\ UNCHANGED isSlideMode
  ELSE IF key = "Escape" \/ key = "Backspace" THEN
    /\ disableSlideMode
    /\ disableCalled' = TRUE
    /\ UNCHANGED firstItem
  ELSE
    /\ disableCalled' = FALSE
    /\ UNCHANGED <<firstItem, isSlideMode>>

\* GalleryItem.handleDoubleClick: select only this file, enter slide mode
handleDoubleClick(f) ==
  /\ fileSelection' = <<f>>
  /\ isSlideMode' = TRUE
  /\ lastOp' = "handleDoubleClick"
  /\ threw' = FALSE
  /\ UNCHANGED <<fileList, tagSelection, firstItem, mounted, keydownListener,
                 popstateListener, disableCalled>>

\* rendering SlideView reads file.id of fileList[firstItem]
renderThrows == firstItem >= Len(fileList)

\* first render of SlideView and its effects: load, popstate, keydown
Mount ==
  /\ ~mounted
  /\ ~renderThrows
  /\ loadEffect
  /\ mounted' = TRUE
  /\ popstateListener' = TRUE
  /\ keydownListener' = TRUE
  /\ lastOp' = "mount"
  /\ threw' = FALSE
  /\ UNCHANGED <<fileList, fileSelection, tagSelection, isSlideMode, disableCalled>>
  /\ UNCHANGED galleryVars

\* first render of SlideView failing on an index outside fileList
MountThrows ==
  /\ ~mounted
  /\ renderThrows
  /\ lastOp' = "mount"
  /\ threw' = TRUE
  /\ UNCHANGED <<fileList, fileSelection, tagSelection, slideVars>>
  /\ UNCHANGED galleryVars

\* an unmount whose effect cleanups are missing
UnmountKeepsListeners ==
  /\ mounted
  /\ mounted' = FALSE
  /\ lastOp' = "unmount"
  /\ threw' = FALSE
  /\ UNCHANGED <<fileList, fileSelection, tagSelection, firstItem, isSlideMode,
                 disableCalled, popstateListener, keydownListener>>
  /\ UNCHANGED galleryVars

\* unmounting SlideView runs the cleanups of the popstate and keydown effects
Unmount ==
  /\ mounted
  /\ mounted' = FALSE
  /\ popstateListener' = FALSE
  /\ keydownListener' = FALSE
  /\ lastOp' = "unmount"
  /\ threw' = FALSE
  /\ UNCHANGED <<fileList, fileSelection, tagSelection, firstItem, isSlideMode,
                 disableCalled>>
  /\ UNCHANGED galleryVars

\* a keydown event on window
KeyDown(key) ==
  /\ IF keydownListener
     THEN handleUserKeyPress(key)
     ELSE /\ disableCalled' = FALSE
          /\ UNCHANGED <<firstItem, isSlideMode>>
  /\ lastOp' = key
  /\ threw' = FALSE
  /\ UNCHANGED <<fileList, fileSelection, tagSelection, mounted, keydownListener,
                 popstateListener>>
  /\ UNCHANGED galleryVars

\* a popstate event on window (the back button)
PopState ==
  /\ IF popstateListener
     THEN /\ disableSlideMode
          /\ disableCalled' = TRUE
     ELSE /\ disableCalled' = FALSE
          /\ UNCHANGED isSlideMode
  /\ lastOp' = "popstate"
  /\ threw' = FALSE
  /\ UNCHANGED <<fileList, fileSelection, tagSelection, firstItem, mounted,
                 keydownListener, popstateListener>>
  /\ UNCHANGED galleryVars

\* click on the "previous image" button, rendered only when firstItem - 1 >= 0
ClickPrevImage ==
  /\ mounted
  /\ firstItem - 1 >= 0
  /\ decrImgIndex
  /\ disableCalled' = FALSE
  /\ lastOp' = "prevImage"
  /\ threw' = FALSE
  /\ UNCHANGED <<fileList, fileSelection, tagSelection, isSlideMode, mounted,
                 keydownListener, popstateListener>>
  /\ UNCHANGED galleryVars

\* click on the "next image" button, rendered only when firstItem + 1 < length
ClickNextImage ==
  /\ mounted
  /\ firstItem + 1 < Len(fileList)
  /\ incrImgIndex
  /\ disableCalled' = FALSE
  /\ lastOp' = "nextImage"
  /\ threw' = FALSE
  /\ UNCHANGED <<fileList, fileSelection, tagSelection, isSlideMode, mounted,
                 keydownListener, popstateListener>>
  /\ UNCHANGED galleryVars

SlideInit ==
  /\ fileList \in FileLists
  /\ fileSelection = <<>>
  /\ tagSelection = <<>>
  /\ lastOp = "init"
  /\ threw = FALSE
  /\ SlideIdle
  /\ GalleryIdle

\* a double click on the gallery item of a listed file
SlideDoubleClick ==
  /\ \E f \in Range(fileList) : handleDoubleClick(f)
  /\ UNCHANGED galleryVars

SlideClearSelection ==
  /\ clearFileSelection
  /\ UNCHANGED <<slideVars, galleryVars>>

SlideKeyDown == \E key \in Keys : KeyDown(key)

SlideNext ==
  \/ SlideDoubleClick
  \/ SlideClearSelection
  \/ Mount
  \/ MountThrows
  \/ Unmount
  \/ SlideKeyDown
  \/ PopState
  \/ ClickPrevImage
  \/ ClickNextImage

SpecSlide == SlideInit /\ [][SlideNext]_vars

InRange(i) == i >= 0 /\ i <= Len(fileList) - 1
Abs(n) == IF n < 0 THEN 0 - n ELSE n
StepOps == {"ArrowLeft", "ArrowRight", "prevImage", "nextImage"}

\* C2: with the slide view listening, ArrowLeft sets firstItem to
\* max(0, firstItem - 1) and ArrowRight to min(firstItem + 1, length - 1); for a
\* non-empty fileList and firstItem inside [0, length - 1], every arrow key
\* press and every previous/next click leaves firstItem inside [0, length - 1]
\* and moves it by at most one.
C2_IndexStaysInRange ==
  [][ /\ (keydownListener /\ lastOp' = "ArrowLeft") =>
            firstItem' = Max(0, firstItem - 1)
      /\ (keydownListener /\ lastOp' = "ArrowRight") =>
            firstItem' = Min(firstItem + 1, Len(fileList) - 1)
      /\ (lastOp' \in StepOps /\ Len(fileList) >= 1 /\ InRange(firstItem)) =>
            /\ firstItem' >= 0
            /\ firstItem' <= Len(fileList) - 1
            /\ Abs(firstItem' - firstItem) <= 1 ]_vars

\* ArrowRight pressed on the last image of a list of several: the index stays
C2_Witness ==
  /\ lastOp = "ArrowRight"
  /\ mounted
  /\ Len(fileList) >= 2
  /\ firstItem = Len(fileList) - 1

EventOps == Keys \cup {"popstate"}

\* C3: while the slide view is mounted, popstate, Escape and Backspace each
\* call disableSlideMode (slide mode is off afterwards) and no other key does;
\* once it is unmounted the listeners are gone and keydown / popstate events
\* change neither firstItem nor the slide mode.
C3_BackLeavesSlideMode ==
  /\ [](/\ (mounted /\ lastOp \in {"popstate", "Escape", "Backspace"}) =>
              (disableCalled /\ ~isSlideMode)
        /\ (lastOp \in {"ArrowLeft", "ArrowRight", "Enter"}) => ~disableCalled
        /\ ~mounted => (~keydownListener /\ ~popstateListener))
  /\ [][ (~mounted /\ lastOp' \in EventOps) =>
            /\ firstItem' = firstItem
            /\ isSlideMode' = isSlideMode
            /\ ~disableCalled' ]_vars

\* Escape arriving after the unmount of a slide view that showed image > 0,
\* with slide mode still on
C3_Witness ==
  /\ lastOp = "Escape"
  /\ ~mounted
  /\ isSlideMode
  /\ firstItem > 0

\* C4: when the slide view loads with a first selected file, firstItem becomes
\* the index of that file in fileList, so fileList[firstItem] is that file;
\* with no file selected the load leaves firstItem unchanged.
C4_LoadGoesToFirstSelected ==
  [][ (lastOp' = "mount" /\ ~threw') =>
        IF firstSelectedFile # Undefined
        THEN /\ firstItem' < Len(fileList)
             /\ fileList[firstItem' + 1] = firstSelectedFile
        ELSE firstItem' = firstItem ]_vars

\* the view was mounted with a selected file that is not the first of the list
C4_Witness ==
  /\ lastOp = "mount"
  /\ ~threw
  /\ fileSelection # <<>>
  /\ firstItem > 0
  /\ fileList[firstItem + 1] = Head(fileSelection)

\* -------------------------------------------------------------- GalleryItem
\* the file shown by the gallery item under study
file == 1

\* ClientTag.subTags: the direct sub-tags of a tag; the tags form a chain
SubTags(t) == IF t + 1 \in Tags THEN {t + 1} ELSE {}

\* ClientFile.addTag(id) on a tag set
addTag(ts, id) == ts \cup {id}

\* ctx.tags.forEach((tag) => { file.addTag(tag.id); tag.subTags.forEach(file.addTag) })
addContextTagsOnly(ts, ctx) == ts \cup ctx
addContextTags(ts, ctx) ==
  ts \cup UNION {addTag(SubTags(t), t) : t \in ctx}

\* handleDragOver(event); hasType: event.dataTransfer.types.includes(DnDType)
handleDragOver(hasType) ==
  /\ dropTarget' = IF hasType THEN "true" ELSE dropTarget
  /\ lastOp' = "dragOver"
  /\ UNCHANGED <<tags, ctxTags>>

\* handleDragLeave(event)
handleDragLeave(hasType) ==
  /\ dropTarget' = IF hasType THEN "false" ELSE dropTarget
  /\ lastOp' = "dragLeave"
  /\ UNCHANGED <<tags, ctxTags>>

\* handleDrop(event); ctx: the tags of uiStore.getTagContextItems(data)
handleDrop(hasType, ctx) ==
  IF hasType
  THEN /\ tags' = addContextTags(tags, ctx)
       /\ dropTarget' = "false"
       /\ ctxTags' = ctx
       /\ lastOp' = "dropTag"
  ELSE /\ lastOp' = "dropOther"
       /\ UNCHANGED <<tags, dropTarget, ctxTags>>

V1 == "thumb?v=1"

\* imagePath = uiStore.isSlideMode ? file.absolutePath : file.thumbnailPath
imagePath(slide, thumb) == IF slide THEN "absolute" ELSE thumb

\* String.prototype.endsWith('?v=1') on the paths of the model
endsWithV1(path) == path = V1

\* the effect on [imagePath]; it runs when the path differs from the last render
readyEffect(old, new) ==
  IF old # new /\ endsWithV1(new)
  THEN /\ isThumbnailReady' = TRUE
       /\ isThumbnailGenerating' = FALSE
  ELSE UNCHANGED <<isThumbnailReady, isThumbnailGenerating>>

\* ensureThumbnail looks for the thumbnail file and asks for its generation
\* when it is missing; its result is delivered to the .then callback later
ensureThumbnailCheck ==
  /\ promise = "pending"
  /\ \E exists \in BOOLEAN :
       /\ (endsWithV1(thumbnailPath) => exists)
       /\ promise' = IF exists THEN "resolvedTrue" ELSE "resolvedFalse"
  /\ lastOp' = "ensureThumbnail"
  /\ UNCHANGED <<tags, dropTarget, ctxTags, isThumbnailReady, isThumbnailGenerating,
                 thumbnailPath, isBroken, imageError>>

\* the .then((exists) => ...) callback of the ensureThumbnail effect
thenCallback ==
  /\ promise \in {"resolvedTrue", "resolvedFalse"}
  /\ IF promise = "resolvedFalse"
     THEN /\ isThumbnailReady' = FALSE
          /\ isThumbnailGenerating' = IF ~isBroken THEN TRUE ELSE isThumbnailGenerating
          /\ promise' = "settledFalse"
     ELSE /\ promise' = "settledTrue"
          /\ UNCHANGED <<isThumbnailReady, isThumbnailGenerating>>
  /\ lastOp' = "then"
  /\ UNCHANGED <<tags, dropTarget, ctxTags, thumbnailPath, isBroken, imageError>>

\* the requested thumbnail is written: thumbnailPath becomes `${thumbnailPath}?v=1`
\* and the item re-renders
ThumbnailGenerated ==
  /\ promise \in {"resolvedFalse", "settledFalse"}
  /\ ~isBroken
  /\ ~endsWithV1(thumbnailPath)
  /\ thumbnailPath' = V1
  /\ readyEffect(imagePath(isSlideMode, thumbnailPath), imagePath(isSlideMode, V1))
  /\ lastOp' = "thumbnailGenerated"
  /\ UNCHANGED <<tags, dropTarget, ctxTags, promise, isBroken, imageError>>

\* handleImageError: the <img> shown while isThumbnailReady fails to load
handleImageError ==
  /\ isThumbnailReady
  /\ isThumbnailReady' = FALSE
  /\ imageError' = TRUE
  /\ lastOp' = "imageError"
  /\ UNCHANGED <<tags, dropTarget, ctxTags, isThumbnailGenerating, thumbnailPath,
                 promise, isBroken>>

GalleryInit ==
  /\ fileList = <<file>>
  /\ fileSelection = <<>>
  /\ tagSelection = <<>>
  /\ lastOp = "init"
  /\ threw = FALSE
  /\ SlideIdle
  /\ tags \in SUBSET Tags
  /\ dropTarget = "unset"
  /\ ctxTags = {}
  /\ isThumbnailReady = TRUE
  /\ isThumbnailGenerating = FALSE
  /\ thumbnailPath \in {"thumb", V1}
  /\ promise = "pending"
  /\ isBroken \in BOOLEAN
  /\ imageError = FALSE

thumbVars == <<isThumbnailReady, isThumbnailGenerating, thumbnailPath, promise,
               isBroken, imageError>>
storeVars == <<fileList, fileSelection, tagSelection, threw, slideVars>>

GalleryDragOver ==
  /\ \E hasType \in BOOLEAN : handleDragOver(hasType)
  /\ UNCHANGED <<thumbVars, storeVars>>

GalleryDragLeave ==
  /\ \E hasType \in BOOLEAN : handleDragLeave(hasType)
  /\ UNCHANGED <<thumbVars, storeVars>>

GalleryDrop ==
  /\ \E hasType \in BOOLEAN, ctx \in SUBSET Tags : handleDrop(hasType, ctx)
  /\ UNCHANGED <<thumbVars, storeVars>>

GalleryEnsureThumbnail == ensureThumbnailCheck /\ UNCHANGED storeVars
GalleryThen == thenCallback /\ UNCHANGED storeVars
GalleryThumbnailGenerated == ThumbnailGenerated /\ UNCHANGED storeVars
GalleryImageError == handleImageError /\ UNCHANGED storeVars

\* double click on the item: slide mode on, imagePath becomes the absolute path
GalleryDoubleClick ==
  /\ ~isSlideMode
  /\ handleDoubleClick(file)
  /\ readyEffect(imagePath(isSlideMode, thumbnailPath), imagePath(TRUE, thumbnailPath))
  /\ UNCHANGED <<tags, dropTarget, ctxTags, thumbnailPath, promise, isBroken, imageError>>

\* slide mode is left: imagePath becomes the thumbnail path again
GalleryDisableSlideMode ==
  /\ isSlideMode
  /\ disableSlideMode
  /\ readyEffect(imagePath(isSlideMode, thumbnailPath), imagePath(FALSE, thumbnailPath))
  /\ lastOp' = "disableSlideMode"
  /\ UNCHANGED <<fileList, fileSelection, tagSelection, threw, firstItem, mounted,
                 keydownListener, popstateListener, disableCalled>>
  /\ UNCHANGED <<tags, dropTarget, ctxTags, thumbnailPath, promise, isBroken, imageError>>

GalleryNext ==
  \/ GalleryDragOver
  \/ GalleryDragLeave
  \/ GalleryDrop
  \/ GalleryEnsureThumbnail
  \/ GalleryThen
  \/ GalleryThumbnailGenerated
  \/ GalleryImageError
  \/ GalleryDoubleClick
  \/ GalleryDisableSlideMode

SpecGallery == GalleryInit /\ [][GalleryNext]_vars

\* C5: a drop whose types include DnDType adds every tag of ctx.tags and every
\* direct sub-tag of those tags to the file and resets the drop-target marker
\* to 'false'; a drop of any other type changes neither the tags nor the marker.
C5_DropTagsFile ==
  [][ /\ lastOp' = "dropTag" =>
            /\ ctxTags' \subseteq tags'
            /\ \A t \in ctxTags' : SubTags(t) \subseteq tags'
            /\ tags \subseteq tags'
            /\ dropTarget' = "false"
      /\ lastOp' = "dropOther" =>
            /\ tags' = tags
            /\ dropTarget' = dropTarget ]_vars

\* tag 1 alone was dropped on a marked item: its sub-tag 2 is on the file too
C5_Witness ==
  /\ lastOp = "dropTag"
  /\ ctxTags = {1}
  /\ tags = {1, 2}
  /\ dropTarget = "false"

\* C6: once the thumbnail has finished generating (thumbnailPath ends with
\* '?v=1') and the ensureThumbnail promise has been handled, in whichever order
\* the two happened, the item shows the thumbnail: isThumbnailReady is true and
\* isThumbnailGenerating is false (no load error, thumbnail path displayed).
C6_ThumbnailReadyDetected ==
  ( /\ endsWithV1(thumbnailPath)
    /\ promise \in {"settledTrue", "settledFalse"}
    /\ ~isSlideMode
    /\ ~imageError ) =>
      (isThumbnailReady /\ ~isThumbnailGenerating)

====
